---- MODULE Spec2Model ----
(***************************************************************************)
(* A model of zinio's download pipeline (main.go): downloadAllIssues,      *)
(* downloadAllPages, downloadPage, save and unlockAndMerge, together with  *)
(* the file system, the content server and the log they act on.            *)
(*                                                                         *)
(* A process is one execution of the program's main(); the file system is  *)
(* shared by the processes and outlives them, so that a later execution    *)
(* starts from the files an earlier one left behind.                       *)
(***************************************************************************)
EXTENDS Integers, Sequences, FiniteSets, TLC

(***************************************************************************)
(* Bounds of the model.                                                    *)
(***************************************************************************)
\* the largest PageCount the metadata service reports
MaxPageCount == 3
\* the largest number of sub-pages one page container holds
MaxSub == 2

Procs == {1, 2}

\* "no value": a file that does not exist, an Issue not fetched
NoFile == [exists |-> FALSE, data |-> <<>>]
NoIssue == [ID |-> 0, Password |-> "", PageCount |-> 0]
\* the nil error; an error is the sequence of its messages, outermost first
Nil == <<>>

(***************************************************************************)
(* sanitize (main.go:23-37), on strings given as sequences of characters.  *)
(***************************************************************************)
Letters == {"a", "b", "c", "M", "N"}
Punctuation == {"'", "!", "&", ",", ".", "@", "-"}
Spaces == {" "}

\* strings.NewReplacer("/", " - ", ":", " - ").Replace
RECURSIVE Replace(_)
Replace(s) ==
    IF s = <<>> THEN <<>>
    ELSE IF Head(s) \in {"/", ":"}
         THEN <<" ", "-", " ">> \o Replace(Tail(s))
         ELSE <<Head(s)>> \o Replace(Tail(s))

\* invalidChars.ReplaceAllString(s, " ")
ReplaceInvalid(s) ==
    [k \in 1..Len(s) |->
        IF s[k] \in Letters \cup Punctuation \cup Spaces THEN s[k] ELSE " "]

\* whiteSpaces.ReplaceAllString(s, " ")
RECURSIVE CollapseSpaces(_)
CollapseSpaces(s) ==
    IF s = <<>> THEN <<>>
    ELSE IF Head(s) \in Spaces /\ Len(s) > 1 /\ s[2] \in Spaces
         THEN CollapseSpaces(Tail(s))
         ELSE <<Head(s)>> \o CollapseSpaces(Tail(s))

\* strings.TrimSpace
RECURSIVE TrimLeft(_)
TrimLeft(s) ==
    IF s # <<>> /\ Head(s) \in Spaces THEN TrimLeft(Tail(s)) ELSE s

RECURSIVE TrimRight(_)
TrimRight(s) ==
    IF s # <<>> /\ s[Len(s)] \in Spaces
    THEN TrimRight(SubSeq(s, 1, Len(s) - 1))
    ELSE s

TrimSpace(s) == TrimRight(TrimLeft(s))

sanitize(name) == TrimSpace(CollapseSpaces(ReplaceInvalid(Replace(name))))

(***************************************************************************)
(* The batches handed to downloadAllIssues, and the paths they give.       *)
(***************************************************************************)
\* one magazine, a long issue followed by a short one
BatchLong ==
    << [ID |-> 1, Title |-> <<"M">>,
        Issues |-> << [ID |-> 1, Title |-> <<"a">>],
                      [ID |-> 2, Title |-> <<"b", "/">>] >>] >>

\* two magazines; the two issues of the first have titles that sanitize to
\* the same file name
BatchTwo ==
    << [ID |-> 1, Title |-> <<"M">>,
        Issues |-> << [ID |-> 2, Title |-> <<"b", "/">>],
                      [ID |-> 3, Title |-> <<"b", ":">>] >>],
       [ID |-> 2, Title |-> <<"N", "?">>,
        Issues |-> << [ID |-> 4, Title |-> <<"c">>] >>] >>

\* the issue "Sample" of three single-page containers
BatchSample ==
    << [ID |-> 3, Title |-> <<"M">>,
        Issues |-> << [ID |-> 5, Title |-> <<"c">>] >>] >>

Batches == {BatchLong, BatchTwo, BatchSample}

\* the batch two instances of the program are given at the same time
BatchRace ==
    << [ID |-> 1, Title |-> <<"M">>,
        Issues |-> << [ID |-> 2, Title |-> <<"b", "/">>] >>] >>

\* dir := sanitize(magazine.Title)
DirOf(magazine) == sanitize(magazine.Title)

\* path := path.Join(dir, sanitize(metadata.Title)+".pdf")
PathOf(magazine, metadata) ==
    DirOf(magazine) \o <<"/">> \o sanitize(metadata.Title) \o <<".pdf">>

\* temp := path + ".part"
TempOf(path) == path \o <<".part">>

FinalPathsOf(batch) ==
    UNION {{PathOf(batch[m], batch[m].Issues[n]) :
               n \in 1..Len(batch[m].Issues)} : m \in 1..Len(batch)}

FinalPaths == UNION {FinalPathsOf(batch) : batch \in Batches}
TempPaths == {TempOf(path) : path \in FinalPaths}
Paths == FinalPaths \cup TempPaths
Dirs == UNION {{DirOf(batch[m]) : m \in 1..Len(batch)} : batch \in Batches}

(***************************************************************************)
(* The content service: issue metadata (Session.GetIssue), page URLs       *)
(* (Issue.GetURL) and the responses to the page requests.                  *)
(***************************************************************************)
\* the page counts the metadata service may report for an issue
ServerPageCounts(id) ==
    IF id = 1 THEN 0..MaxPageCount
    ELSE IF id = 4 THEN {0}
    ELSE IF id = 5 THEN {3}
    ELSE {1}

\* the password of every issue, and the keys a page container may be locked with
ServerPassword == "secret"
Keys == {"secret", "other"}

\* the result of Session.GetIssue: an Issue, or an error
GetIssueResults(id) ==
    {[issue |-> [ID |-> id, Password |-> ServerPassword, PageCount |-> n],
      err |-> Nil] : n \in ServerPageCounts(id)}
    \cup {[issue |-> NoIssue, err |-> << <<"metadata request failed">> >>]}

\* Issue.GetURL: the URL of page `page`, or an error when it is out of range
GetURL(iss, page) ==
    IF page < 0 \/ page >= iss.PageCount
    THEN [url |-> <<0, 0>>, err |-> << <<"page index out of bounds">> >>]
    ELSE [url |-> <<iss.ID, page>>, err |-> Nil]

\* the number of sub-pages of the container served for page index j of issue
\* id: the containers of issue 5 ("Sample") hold one sub-page each
SubPagesAt(id, j) == IF id = 5 THEN 1 ELSE (j % MaxSub) + 1

\* a page container: the index it was served for, the key that unlocks it and
\* its number of sub-pages; Garbage is a body that is no PDF at all (an error
\* page); NoBody is the zero value page{}
Container(url, key) ==
    [kind |-> "pdf", idx |-> url[2], key |-> key, n |-> SubPagesAt(url[1], url[2])]
Garbage(j) == [kind |-> "html", idx |-> j, key |-> "", n |-> 0]
NoBody == [kind |-> "none", idx |-> 0, key |-> "", n |-> 0]

\* what ctxhttp.Get and the body read may yield for a URL: a transport error
\* (gerr), a response whose body cannot be read (rerr), or a response with a
\* status and a body
Responses(url) ==
    {[gerr |-> e, rerr |-> Nil, status |-> 0, body |-> NoBody] :
        e \in {<< <<"connection refused">> >>, << <<"context deadline exceeded">> >>}}
    \cup {[gerr |-> Nil, rerr |-> << <<"unexpected EOF">> >>, status |-> 200,
           body |-> NoBody]}
    \cup {[gerr |-> Nil, rerr |-> Nil, status |-> 200, body |-> Container(url, k)] :
             k \in Keys}
    \cup {[gerr |-> Nil, rerr |-> Nil, status |-> s, body |-> Garbage(url[2])] :
             s \in {200, 404}}

(***************************************************************************)
(* errors.Wrapf and errors.Errorf (github.com/pkg/errors).                 *)
(***************************************************************************)
\* Wrapf returns nil when err is nil
Wrapf(err, msg) == IF err = Nil THEN Nil ELSE <<msg>> \o err
Errorf(msg) == <<msg>>

(***************************************************************************)
(* Documents.  A sub-page is a page object of a container; a document      *)
(* (pdf.PdfWriter) is the sequence of the page objects added to it; a file *)
(* holds the objects written so far, between a header and a trailer.       *)
(***************************************************************************)
\* r.GetPageAsPdfPage(k) of the container c
SubPage(c, k) == [src |-> c.idx, num |-> k, Annots |-> "annots"]

NoPage == [src |-> 0, num |-> 0, Annots |-> ""]
Header == [tag |-> "%PDF", page |-> NoPage]
Trailer == [tag |-> "%%EOF", page |-> NoPage]

\* what pdf.Write(file) writes for the document doc when nothing fails
Serialize(doc) ==
    <<Header>> \o [k \in 1..Len(doc) |-> [tag |-> "obj", page |-> doc[k]]] \o <<Trailer>>

\* a file that holds a whole document
WellFormed(f) ==
    /\ f.exists
    /\ Len(f.data) >= 2
    /\ f.data[1] = Header
    /\ f.data[Len(f.data)] = Trailer
    /\ \A k \in 2..Len(f.data) - 1 : f.data[k].tag = "obj"

(***************************************************************************)
(* unlockAndMerge (main.go:169-211).                                       *)
(***************************************************************************)
\* an inner loop that stops one sub-page short
AddedPagesDropsLast(c) ==
    [k \in 1..c.n - 1 |-> [SubPage(c, k) EXCEPT !.Annots = "nil"]]

\* the inner loop: the sub-pages 1..numPages of one container, each with its
\* annotations cleared, in the order in which they are added to the writer
AddedPages(c) ==
    [k \in 1..c.n |-> [SubPage(c, k) EXCEPT !.Annots = "nil"]]

\* the outer loop from the writer state w on: [doc, err]
RECURSIVE MergeFrom(_, _, _)
MergeFrom(w0, ps, password) ==
    IF ps = <<>> THEN [doc |-> w0, err |-> Nil]
    ELSE LET c == Head(ps) IN
         IF c.kind # "pdf"
         THEN [doc |-> <<>>, err |-> << <<"pdf: invalid file header">> >>]
         ELSE IF c.key # password
         THEN [doc |-> <<>>,
               err |-> Errorf(<<"failed to decrypt pages using password", password>>)]
         ELSE MergeFrom(w0 \o AddedPages(c), Tail(ps), password)

\* a merge that leaves out the containers it cannot open
unlockAndMergeLenient(ps, password) ==
    LET Opens(c) == c.kind = "pdf" /\ c.key = password
    IN  MergeFrom(<<>>, SelectSeq(ps, Opens), password)

\* a merge that refuses an empty list of containers
unlockAndMergeRejectsEmpty(ps, password) ==
    IF ps = <<>>
    THEN [doc |-> <<>>, err |-> << <<"no pages to merge">> >>]
    ELSE MergeFrom(<<>>, ps, password)


unlockAndMerge(ps, password) == MergeFrom(<<>>, ps, password)

(***************************************************************************)
(* downloadPage (main.go:39-58) on the response the request yields, and    *)
(* the sequencing step of downloadAllPages (main.go:79-81).                *)
(***************************************************************************)
downloadPage(resp) ==
    IF resp.gerr # Nil THEN [page |-> NoBody, err |-> resp.gerr]
    ELSE IF resp.rerr # Nil THEN [page |-> NoBody, err |-> resp.rerr]
    ELSE [page |-> resp.body, err |-> Nil]

\* a sequencing that moves the last page to the front instead
SequencedRight(ps) ==
    IF Len(ps) > 0 THEN <<ps[Len(ps)]>> \o SubSeq(ps, 1, Len(ps) - 1) ELSE ps

\* pages = append(pages[1:], pages[0]) when len(pages) > 0
Sequenced(ps) ==
    IF Len(ps) > 0 THEN Tail(ps) \o <<Head(ps)>> ELSE ps

(***************************************************************************)
(* State.                                                                  *)
(***************************************************************************)
VARIABLES
    magazines,  \* the batch given to downloadAllIssues
    dirs,       \* the directories that exist
    files,      \* path -> the file at that path, or NoFile
    pc,         \* process -> where it is in main.go
    mi,         \* process -> index of the magazine of the outer loop (from 1)
    ii,         \* process -> index of the issue of the inner loop (from 1)
    issue,      \* process -> the Issue got from GetIssue
    i,          \* process -> the loop variable of downloadAllPages
    pages,      \* process -> the pages slice
    w,          \* process -> the document unlockAndMerge returned
    err,        \* process -> the err variable of the function being run
    reqs,       \* process -> the requests sent for the issue last taken up
    log,        \* process -> the log lines written by the run
    cancelled,  \* process -> whether the ctx given to downloadAllIssues is done
    fd,         \* process -> the path at which the file it has open now lives
    renames     \* final path -> how often a file was renamed onto it (up to 2)

vars == <<magazines, dirs, files, pc, mi, ii, issue, i, pages, w, err, reqs, log,
          cancelled, fd, renames>>

\* the magazine and the issue metadata the loops of process p are at
Magazine(p) == magazines[mi[p]]
Metadata(p) == Magazine(p).Issues[ii[p]]
CurPath(p) == PathOf(Magazine(p), Metadata(p))
CurTemp(p) == TempOf(CurPath(p))

\* a Stat that looks at the temp path of the path it is given
StatOfTemp(path) ==
    IF files[TempOf(path)].exists THEN Nil ELSE << <<"stat: no such file or directory">> >>

\* os.Stat: the error it returns (nil when the file or directory exists)
Stat(path) ==
    IF files[path].exists THEN Nil ELSE << <<"stat: no such file or directory">> >>
StatDir(dir) ==
    IF dir \in dirs THEN Nil ELSE << <<"stat: no such file or directory">> >>
IsNotExist(e) == e = << <<"stat: no such file or directory">> >>

\* no file is open; the file that was open has no path any more
NoFd == <<>>
Orphan == <<"(deleted)">>

\* log lines: entry.Info (with the magazine and issue fields) and log.Error
Info(p, text) ==
    [level |-> "info", magazine |-> Magazine(p).Title, issue |-> Metadata(p).Title,
     msg |-> << <<text>> >>]
Error(e) == [level |-> "error", magazine |-> <<>>, issue |-> <<>>, msg |-> e]

InitLocals ==
    /\ mi = [p \in Procs |-> 1]
    /\ ii = [p \in Procs |-> 1]
    /\ issue = [p \in Procs |-> NoIssue]
    /\ i = [p \in Procs |-> 0]
    /\ pages = [p \in Procs |-> <<>>]
    /\ w = [p \in Procs |-> <<>>]
    /\ err = [p \in Procs |-> Nil]
    /\ reqs = [p \in Procs |-> <<>>]
    /\ log = [p \in Procs |-> <<>>]
    /\ cancelled = [p \in Procs |-> FALSE]
    /\ fd = [p \in Procs |-> NoFd]

\* one writer: process 1 runs the program, again and again; nothing exists yet
Init ==
    /\ magazines \in Batches
    /\ dirs = {}
    /\ files = [path \in Paths |-> NoFile]
    /\ renames = [path \in FinalPaths |-> 0]
    /\ pc = [p \in Procs |-> IF p = 1 THEN "idle" ELSE "off"]
    /\ InitLocals

\* one writer as in Init, or two instances of the program started on the same
\* batch in the same directory
InitRace ==
    \/ Init
    \/ /\ magazines = BatchRace
       /\ dirs = {}
       /\ files = [path \in Paths |-> NoFile]
       /\ renames = [path \in FinalPaths |-> 0]
       /\ pc = [p \in Procs |-> "idle"]
       /\ InitLocals

Set(f, p, v) == [f EXCEPT ![p] = v]

\* the locals of one issue's processing go out of scope
ResetIssueLocals(p) ==
    /\ issue' = Set(issue, p, NoIssue)
    /\ i' = Set(i, p, 0)
    /\ pages' = Set(pages, p, <<>>)
    /\ w' = Set(w, p, <<>>)
    /\ err' = Set(err, p, Nil)

(***************************************************************************)
(* main and the loops of downloadAllIssues (main.go:86-143).               *)
(***************************************************************************)
\* main (main.go:250): the program is run, for the first time or once more
Start(p) ==
    /\ pc[p] \in {"idle", "returned", "crashed"}
    /\ pc' = Set(pc, p, "mag")
    /\ mi' = Set(mi, p, 1)
    /\ ii' = Set(ii, p, 1)
    /\ reqs' = Set(reqs, p, <<>>)
    /\ log' = Set(log, p, <<>>)
    /\ cancelled' = Set(cancelled, p, FALSE)
    /\ UNCHANGED <<fd, renames, magazines, dirs, files, issue, i, pages, w, err>>

\* main.go:87 and 142: no magazine is left, return nil
MagazinesDone(p) ==
    /\ pc[p] = "mag"
    /\ mi[p] > Len(magazines)
    /\ pc' = Set(pc, p, "returned")
    /\ UNCHANGED <<cancelled, fd, renames, magazines, dirs, files, mi, ii, issue, i, pages, w, err, reqs, log>>

\* main.go:87-90: the next magazine; os.Stat(dir)
EnterMagazine(p) ==
    /\ pc[p] = "mag"
    /\ mi[p] <= Len(magazines)
    /\ ii' = Set(ii, p, 1)
    /\ IF IsNotExist(StatDir(DirOf(Magazine(p))))
       THEN pc' = Set(pc, p, "mkdir")
       ELSE pc' = Set(pc, p, "issue")
    /\ UNCHANGED <<cancelled, fd, renames, magazines, dirs, files, mi, issue, i, pages, w, err, reqs, log>>

\* os.Mkdir: the errors it may return
MkdirResults(dir) ==
    IF dir \in dirs THEN {<< <<"mkdir: file exists">> >>}
    ELSE {Nil, << <<"mkdir: permission denied">> >>}

\* a Mkdir step that logs the failure and goes on with the issues of the magazine
MkdirGoesOn(p) ==
    /\ pc[p] = "mkdir"
    /\ \E merr \in MkdirResults(DirOf(Magazine(p))) :
         IF merr # Nil
         THEN /\ log' = Set(log, p, Append(log[p],
                     Error(Wrapf(merr, <<"failed to create directory">> \o Magazine(p).Title))))
              /\ pc' = Set(pc, p, "issue")
              /\ UNCHANGED <<mi, dirs>>
         ELSE /\ dirs' = dirs \cup {DirOf(Magazine(p))}
              /\ pc' = Set(pc, p, "issue")
              /\ UNCHANGED <<mi, log>>
    /\ UNCHANGED <<cancelled, fd, renames, magazines, files, ii, issue, i, pages, w, err, reqs>>


\* main.go:91-94: os.Mkdir(dir); on failure log it and continue with the next magazine
Mkdir(p) ==
    /\ pc[p] = "mkdir"
    /\ \E merr \in MkdirResults(DirOf(Magazine(p))) :
         IF merr # Nil
         THEN /\ log' = Set(log, p, Append(log[p],
                     Error(Wrapf(merr, <<"failed to create directory">> \o Magazine(p).Title))))
              /\ mi' = Set(mi, p, mi[p] + 1)
              /\ pc' = Set(pc, p, "mag")
              /\ UNCHANGED dirs
         ELSE /\ dirs' = dirs \cup {DirOf(Magazine(p))}
              /\ pc' = Set(pc, p, "issue")
              /\ UNCHANGED <<mi, log>>
    /\ UNCHANGED <<cancelled, fd, renames, magazines, files, ii, issue, i, pages, w, err, reqs>>

\* main.go:97: no issue of the magazine is left
IssuesDone(p) ==
    /\ pc[p] = "issue"
    /\ ii[p] > Len(Magazine(p).Issues)
    /\ mi' = Set(mi, p, mi[p] + 1)
    /\ pc' = Set(pc, p, "mag")
    /\ UNCHANGED <<cancelled, fd, renames, magazines, dirs, files, ii, issue, i, pages, w, err, reqs, log>>

\* an issue step without the skip
IssueCheckNoSkip(p) ==
    /\ pc[p] = "issue"
    /\ ii[p] <= Len(Magazine(p).Issues)
    /\ reqs' = Set(reqs, p, <<>>)
    /\ pc' = Set(pc, p, "meta")
    /\ UNCHANGED <<cancelled, fd, renames, magazines, dirs, files, mi, ii, issue, i, pages, w, err, log>>

\* main.go:97-109: the next issue; skip it when os.Stat(path) finds the file
IssueCheck(p) ==
    /\ pc[p] = "issue"
    /\ ii[p] <= Len(Magazine(p).Issues)
    /\ reqs' = Set(reqs, p, <<>>)
    /\ IF Stat(CurPath(p)) = Nil
       THEN /\ log' = Set(log, p, Append(log[p], Info(p, "issue already downloaded")))
            /\ ii' = Set(ii, p, ii[p] + 1)
            /\ UNCHANGED pc
       ELSE /\ pc' = Set(pc, p, "meta")
            /\ UNCHANGED <<ii, log>>
    /\ UNCHANGED <<cancelled, fd, renames, magazines, dirs, files, mi, issue, i, pages, w, err>>

\* a request sent for an issue: its kind ("metadata" or "page"), the issue and
\* the page index it is for, the status of the response (0 when there was
\* none) and the error the call returned
Request(kind, id, page, status, e) ==
    [kind |-> kind, issue |-> id, page |-> page, status |-> status, err |-> e]

\* main.go:112-119: session.GetIssue
GetIssue(p) ==
    /\ pc[p] = "meta"
    /\ \E r \in GetIssueResults(Metadata(p).ID) :
         /\ reqs' = Set(reqs, p, Append(reqs[p],
                       Request("metadata", Metadata(p).ID, 0, 0, r.err)))
         /\ IF r.err # Nil
            THEN /\ err' = Set(err, p, r.err)
                 /\ log' = Set(log, p, Append(log[p], Info(p, "downloading issue metadata")))
                 /\ pc' = Set(pc, p, "report")
                 /\ UNCHANGED issue
            ELSE /\ issue' = Set(issue, p, r.issue)
                 /\ log' = Set(log, p, log[p] \o <<Info(p, "downloading issue metadata"),
                                                   Info(p, "downloading issue")>>)
                 /\ pc' = Set(pc, p, "fetch")
                 /\ UNCHANGED err
    /\ UNCHANGED <<cancelled, fd, renames, magazines, dirs, files, mi, ii, i, pages, w>>

(***************************************************************************)
(* downloadAllPages (main.go:60-84), called at main.go:120.                *)
(***************************************************************************)
\* a Get that goes on with the request when the ctx is done
GetIgnoresCtx(p, url) == Responses(url)

\* main.go:40-43: ctxhttp.Get under the ctx of process p: when the ctx is done
\* (cancelled, or past its deadline) the call returns ctx.Err() at once and no
\* response is got
Get(p, url) ==
    IF cancelled[p]
    THEN {[gerr |-> e, rerr |-> Nil, status |-> 0, body |-> NoBody] :
             e \in {<< <<"context canceled">> >>, << <<"context deadline exceeded">> >>}}
    ELSE Responses(url)

\* the message of main.go:123
DownloadMsg(p) ==
    <<"failed to download">> \o Magazine(p).Title \o <<" ">> \o Metadata(p).Title

\* a loop that skips a page it could not download and goes on with the next
FetchPageSkipsFailed(p) ==
    /\ pc[p] = "fetch"
    /\ i[p] < issue[p].PageCount
    /\ LET u == GetURL(issue[p], i[p]) IN
       \E resp \in Get(p, u.url) :
          LET r == downloadPage(resp) IN
          /\ reqs' = Set(reqs, p, Append(reqs[p],
                        Request("page", u.url[1], u.url[2], resp.status, r.err)))
          /\ pages' = Set(pages, p, IF r.err # Nil THEN pages[p] ELSE Append(pages[p], r.page))
          /\ i' = Set(i, p, i[p] + 1)
    /\ UNCHANGED <<cancelled, fd, renames, magazines, dirs, files, pc, mi, ii, issue, w, err, log>>

\* a loop that tries a page again when its download failed
FetchPageRetries(p) ==
    /\ pc[p] = "fetch"
    /\ i[p] < issue[p].PageCount
    /\ LET u == GetURL(issue[p], i[p]) IN
       \E resp \in Get(p, u.url) :
          LET r == downloadPage(resp) IN
          /\ reqs' = Set(reqs, p, Append(reqs[p],
                        Request("page", u.url[1], u.url[2], resp.status, r.err)))
          /\ Len(reqs[p]) <= MaxPageCount
          /\ IF r.err # Nil
             THEN UNCHANGED <<pages, i>>
             ELSE /\ pages' = Set(pages, p, Append(pages[p], r.page))
                  /\ i' = Set(i, p, i[p] + 1)
    /\ UNCHANGED <<cancelled, fd, renames, magazines, dirs, files, pc, mi, ii, issue, w, err, log>>


\* main.go:63-77: one turn of the loop; an error ends the issue (main.go:122-124)
FetchPage(p) ==
    /\ pc[p] = "fetch"
    /\ i[p] < issue[p].PageCount
    /\ LET u == GetURL(issue[p], i[p]) IN
       IF u.err # Nil
       THEN /\ err' = Set(err, p, Wrapf(u.err, DownloadMsg(p)))
            /\ pages' = Set(pages, p, <<>>)
            /\ pc' = Set(pc, p, "report")
            /\ UNCHANGED <<i, reqs>>
       ELSE \E resp \in Get(p, u.url) :
              LET r == downloadPage(resp) IN
              /\ reqs' = Set(reqs, p, Append(reqs[p],
                            Request("page", u.url[1], u.url[2], resp.status, r.err)))
              /\ IF r.err # Nil
                 THEN /\ err' = Set(err, p,
                            Wrapf(Wrapf(r.err, <<"failed to download page", ToString(i[p])>>),
                                  DownloadMsg(p)))
                      /\ pages' = Set(pages, p, <<>>)
                      /\ pc' = Set(pc, p, "report")
                      /\ UNCHANGED i
                 ELSE /\ pages' = Set(pages, p, Append(pages[p], r.page))
                      /\ i' = Set(i, p, i[p] + 1)
                      /\ UNCHANGED <<err, pc>>
    /\ UNCHANGED <<cancelled, fd, renames, magazines, dirs, files, mi, ii, issue, w, log>>

\* a loop that ends before the last page
FetchDoneEarly(p) ==
    /\ pc[p] = "fetch"
    /\ i[p] >= issue[p].PageCount - 1
    /\ pages' = Set(pages, p, Sequenced(pages[p]))
    /\ log' = Set(log, p, Append(log[p], Info(p, "saving issue")))
    /\ pc' = Set(pc, p, "unlock")
    /\ UNCHANGED <<cancelled, fd, renames, magazines, dirs, files, mi, ii, issue, i, w, err, reqs>>

\* main.go:63 and 79-83: the loop ends, the pages are sequenced and returned;
\* main.go:126-127: save is called
FetchDone(p) ==
    /\ pc[p] = "fetch"
    /\ i[p] >= issue[p].PageCount
    /\ pages' = Set(pages, p, Sequenced(pages[p]))
    /\ log' = Set(log, p, Append(log[p], Info(p, "saving issue")))
    /\ pc' = Set(pc, p, "unlock")
    /\ UNCHANGED <<cancelled, fd, renames, magazines, dirs, files, mi, ii, issue, i, w, err, reqs>>

(***************************************************************************)
(* save (main.go:145-167), called at main.go:127.                          *)
(***************************************************************************)
\* main.go:146-150: unlockAndMerge
SaveUnlock(p) ==
    /\ pc[p] = "unlock"
    /\ LET r == unlockAndMerge(pages[p], issue[p].Password) IN
       IF r.err # Nil
       THEN /\ err' = Set(err, p,
                  Wrapf(r.err, <<"failed to unlock and merge pages for">> \o CurPath(p)))
            /\ pc' = Set(pc, p, "report")
            /\ UNCHANGED w
       ELSE /\ w' = Set(w, p, r.doc)
            /\ pc' = Set(pc, p, "create")
            /\ UNCHANGED err
    /\ UNCHANGED <<cancelled, fd, renames, magazines, dirs, files, mi, ii, issue, i, pages, reqs, log>>

\* a create step that opens the temp file without truncating it
SaveCreateNoTrunc(p) ==
    /\ pc[p] = "create"
    /\ \E cerr \in {Nil, << <<"open: permission denied">> >>} :
         IF cerr # Nil
         THEN /\ err' = Set(err, p, Wrapf(cerr, <<"failed to create">> \o CurPath(p)))
              /\ pc' = Set(pc, p, "report")
              /\ UNCHANGED <<files, fd>>
         ELSE /\ files' = [files EXCEPT ![CurTemp(p)] = [exists |-> TRUE, data |-> @.data]]
              /\ fd' = Set(fd, p, CurTemp(p))
              /\ pc' = Set(pc, p, "write")
              /\ UNCHANGED err
    /\ UNCHANGED <<cancelled, renames, magazines, dirs, mi, ii, issue, i, pages, w, reqs, log>>

\* main.go:152-157: os.Create(temp) truncates the file or makes an empty one
SaveCreate(p) ==
    /\ pc[p] = "create"
    /\ \E cerr \in {Nil, << <<"open: permission denied">> >>} :
         IF cerr # Nil
         THEN /\ err' = Set(err, p, Wrapf(cerr, <<"failed to create">> \o CurPath(p)))
              /\ pc' = Set(pc, p, "report")
              /\ UNCHANGED <<files, fd>>
         ELSE /\ files' = [files EXCEPT ![CurTemp(p)] = [exists |-> TRUE, data |-> <<>>]]
              /\ fd' = Set(fd, p, CurTemp(p))
              /\ pc' = Set(pc, p, "write")
              /\ UNCHANGED err
    /\ UNCHANGED <<cancelled, renames, magazines, dirs, mi, ii, issue, i, pages, w, reqs, log>>

\* the content of a file that held c after k objects of out were written
\* into it from its start
Overwritten(c, out, k) == SubSeq(out, 1, k) \o SubSeq(c, k + 1, Len(c))

\* main.go:159: pdf.Write(file) writes the whole document, or fails having
\* written only the first k objects of it; the objects go into the file that
\* was opened, wherever it lives by now
SaveWrite(p) ==
    /\ pc[p] = "write"
    /\ LET out == Serialize(w[p]) IN
       \E k \in 0..Len(out) :
         /\ IF fd[p] \in Paths
            THEN files' = [files EXCEPT ![fd[p]] =
                             [exists |-> TRUE, data |-> Overwritten(files[fd[p]].data, out, k)]]
            ELSE UNCHANGED files
         /\ err' = Set(err, p, IF k = Len(out) THEN Nil ELSE << <<"write: no space left">> >>)
    /\ pc' = Set(pc, p, "close")
    /\ UNCHANGED <<cancelled, fd, renames, magazines, dirs, mi, ii, issue, i, pages, w, reqs, log>>

\* a close step that tests cerr alone and forgets the error of pdf.Write
SaveCloseForgetsWrite(p) ==
    /\ pc[p] = "close"
    /\ \E cerr \in {Nil, << <<"close: input/output error">> >>} :
         IF cerr # Nil
         THEN /\ err' = Set(err, p, Wrapf(cerr, <<"failed to save">> \o CurPath(p)))
              /\ pc' = Set(pc, p, "report")
         ELSE /\ pc' = Set(pc, p, "rename")
              /\ UNCHANGED err
    /\ fd' = Set(fd, p, NoFd)
    /\ UNCHANGED <<cancelled, renames, magazines, dirs, files, mi, ii, issue, i, pages, w, reqs, log>>

\* a close step that goes on to the rename whatever Write and Close returned
SaveCloseIgnoresErrors(p) ==
    /\ pc[p] = "close"
    /\ pc' = Set(pc, p, "rename")
    /\ fd' = Set(fd, p, NoFd)
    /\ UNCHANGED <<cancelled, renames, magazines, dirs, files, mi, ii, issue, i, pages, w, err,
                   reqs, log>>


\* main.go:160-164: file.Close(), then the test of err and cerr
SaveClose(p) ==
    /\ pc[p] = "close"
    /\ \E cerr \in {Nil, << <<"close: input/output error">> >>} :
         IF err[p] # Nil \/ cerr # Nil
         THEN /\ err' = Set(err, p, Wrapf(err[p], <<"failed to save">> \o CurPath(p)))
              /\ pc' = Set(pc, p, "report")
         ELSE /\ pc' = Set(pc, p, "rename")
              /\ UNCHANGED err
    /\ fd' = Set(fd, p, NoFd)
    /\ UNCHANGED <<cancelled, renames, magazines, dirs, files, mi, ii, issue, i, pages, w, reqs, log>>

\* os.Rename: the errors it may return
RenameResults(temp) ==
    IF files[temp].exists
    THEN {Nil, << <<"rename: permission denied">> >>}
    ELSE {<< <<"rename: no such file or directory">> >>}

\* main.go:166: os.Rename(temp, path); a file that is open goes on living at
\* the path it is renamed to, and a file that is replaced loses its path
SaveRename(p) ==
    /\ pc[p] = "rename"
    /\ \E rerr \in RenameResults(CurTemp(p)) :
         /\ IF rerr = Nil
            THEN /\ files' = [files EXCEPT ![CurPath(p)] = files[CurTemp(p)],
                                           ![CurTemp(p)] = NoFile]
                 /\ fd' = [q \in Procs |->
                              IF fd[q] = CurTemp(p) THEN CurPath(p)
                              ELSE IF fd[q] = CurPath(p) THEN Orphan
                              ELSE fd[q]]
                 /\ renames' = [renames EXCEPT ![CurPath(p)] = IF @ < 2 THEN @ + 1 ELSE @]
            ELSE UNCHANGED <<files, fd, renames>>
         /\ err' = Set(err, p, Wrapf(rerr, <<"failed to save">> \o CurPath(p)))
    /\ pc' = Set(pc, p, "report")
    /\ UNCHANGED <<cancelled, magazines, dirs, mi, ii, issue, i, pages, w, reqs, log>>

\* a report step that returns the error of the issue from downloadAllIssues
ReportReturns(p) ==
    /\ pc[p] = "report"
    /\ IF err[p] # Nil
       THEN /\ log' = Set(log, p, Append(log[p], Error(err[p])))
            /\ pc' = Set(pc, p, "returned")
            /\ UNCHANGED ii
       ELSE /\ ii' = Set(ii, p, ii[p] + 1)
            /\ pc' = Set(pc, p, "issue")
            /\ UNCHANGED log
    /\ ResetIssueLocals(p)
    /\ UNCHANGED <<cancelled, fd, renames, magazines, dirs, files, mi, reqs>>

\* main.go:134-139: the closure has returned err; log it if it is not nil and
\* go on with the next issue
Report(p) ==
    /\ pc[p] = "report"
    /\ IF err[p] # Nil
       THEN log' = Set(log, p, Append(log[p], Error(err[p])))
       ELSE UNCHANGED log
    /\ ii' = Set(ii, p, ii[p] + 1)
    /\ pc' = Set(pc, p, "issue")
    /\ ResetIssueLocals(p)
    /\ UNCHANGED <<cancelled, fd, renames, magazines, dirs, files, mi, reqs>>

\* the process is killed (a signal, a power cut) wherever it is
Crash(p) ==
    /\ pc[p] \notin {"off", "idle", "returned", "crashed"}
    /\ pc' = Set(pc, p, "crashed")
    /\ mi' = Set(mi, p, 1)
    /\ ii' = Set(ii, p, 1)
    /\ reqs' = Set(reqs, p, <<>>)
    /\ log' = Set(log, p, <<>>)
    /\ ResetIssueLocals(p)
    /\ cancelled' = Set(cancelled, p, FALSE)
    /\ fd' = Set(fd, p, NoFd)
    /\ UNCHANGED <<renames, magazines, dirs, files>>

\* the caller cancels the ctx given to downloadAllIssues, or its deadline passes
Cancel(p) ==
    /\ pc[p] \notin {"off", "idle", "returned", "crashed"}
    /\ ~cancelled[p]
    /\ cancelled' = Set(cancelled, p, TRUE)
    /\ UNCHANGED <<fd, renames, magazines, dirs, files, pc, mi, ii, issue, i, pages, w,
                   err, reqs, log>>

Next ==
    \/ \E p \in Procs : Start(p)
    \/ \E p \in Procs : MagazinesDone(p)
    \/ \E p \in Procs : EnterMagazine(p)
    \/ \E p \in Procs : Mkdir(p)
    \/ \E p \in Procs : IssuesDone(p)
    \/ \E p \in Procs : IssueCheck(p)
    \/ \E p \in Procs : GetIssue(p)
    \/ \E p \in Procs : FetchPage(p)
    \/ \E p \in Procs : FetchDone(p)
    \/ \E p \in Procs : SaveUnlock(p)
    \/ \E p \in Procs : SaveCreate(p)
    \/ \E p \in Procs : SaveWrite(p)
    \/ \E p \in Procs : SaveClose(p)
    \/ \E p \in Procs : SaveRename(p)
    \/ \E p \in Procs : Report(p)
    \/ \E p \in Procs : Crash(p)
    \/ \E p \in Procs : Cancel(p)

Spec == Init /\ [][Next]_vars

SpecRace == InitRace /\ [][Next]_vars

\* a step of the program of process p: every call it makes returns
Step(p) ==
    \/ MagazinesDone(p) \/ EnterMagazine(p) \/ Mkdir(p) \/ IssuesDone(p)
    \/ IssueCheck(p) \/ GetIssue(p) \/ FetchPage(p) \/ FetchDone(p)
    \/ SaveUnlock(p) \/ SaveCreate(p) \/ SaveWrite(p) \/ SaveClose(p)
    \/ SaveRename(p) \/ Report(p)

\* the documents an earlier run may have saved at a final path of the batch
SavedDocs(batch, path) ==
    UNION {UNION {IF PathOf(batch[m], batch[m].Issues[n]) = path
                  THEN {unlockAndMerge(
                           Sequenced([j \in 1..N |->
                              Container(<<batch[m].Issues[n].ID, j - 1>>, ServerPassword)]),
                           ServerPassword).doc : N \in ServerPageCounts(batch[m].Issues[n].ID)}
                  ELSE {} : n \in 1..Len(batch[m].Issues)} : m \in 1..Len(batch)}

\* the directory of a final path of the batch is there
DirThere(batch, path, ds) ==
    \E m \in 1..Len(batch) : \E n \in 1..Len(batch[m].Issues) :
        PathOf(batch[m], batch[m].Issues[n]) = path /\ DirOf(batch[m]) \in ds

\* one call of downloadAllIssues on the batch of two magazines, in a working
\* directory as earlier runs may have left it: some of the directories made,
\* some of the issues saved
InitFair ==
    /\ magazines = BatchTwo
    /\ dirs \in SUBSET {DirOf(BatchTwo[m]) : m \in 1..Len(BatchTwo)}
    /\ \E saved \in SUBSET FinalPathsOf(BatchTwo) :
          /\ \A path \in saved : DirThere(BatchTwo, path, dirs)
          /\ \E doc \in [saved -> UNION {SavedDocs(BatchTwo, path) : path \in saved}] :
                /\ \A path \in saved : doc[path] \in SavedDocs(BatchTwo, path)
                /\ files = [path \in Paths |->
                              IF path \in saved
                              THEN [exists |-> TRUE, data |-> Serialize(doc[path])]
                              ELSE NoFile]
    /\ renames = [path \in FinalPaths |-> 0]
    /\ pc = [p \in Procs |-> IF p = 1 THEN "idle" ELSE "off"]
    /\ InitLocals

\* main is run once
StartOnce(p) == pc[p] = "idle" /\ Start(p)

NextFair ==
    \/ \E p \in Procs : StartOnce(p)
    \/ \E p \in Procs : Step(p)
    \/ \E p \in Procs : Crash(p)
    \/ \E p \in Procs : Cancel(p)

\* a process that is running goes on running: the calls to the service are
\* bounded by the timeout of main.go:40 and the file operations return; the
\* kill of the process and the cancellation of its ctx may or may not happen
SpecFair == InitFair /\ [][NextFair]_vars /\ \A p \in Procs : WF_vars(Step(p))

TypeOK ==
    /\ magazines \in Batches \cup {BatchRace}
    /\ dirs \subseteq Dirs
    /\ DOMAIN files = Paths
    /\ \A p \in Procs : i[p] \in 0..MaxPageCount /\ Len(pages[p]) <= MaxPageCount

(***************************************************************************)
(* Properties.                                                             *)
(***************************************************************************)
\* process p takes the step
Moved(p) ==
    <<pc[p], mi[p], ii[p], issue[p], i[p], pages[p], w[p], err[p], reqs[p], log[p]>> #
    <<pc'[p], mi'[p], ii'[p], issue'[p], i'[p], pages'[p], w'[p], err'[p], reqs'[p], log'[p]>>

\* the file at path holds exactly the document doc
Holds(path, doc) == files[path] = [exists |-> TRUE, data |-> Serialize(doc)]

\* C1: when downloadAllPages returns the pages of an issue with PageCount = N,
\* all N fetches having succeeded, the list fetched was the pages of the
\* indices 0..N-1 in that order and the list returned is that list rotated left
\* by one: same length, position k holding what was fetched at index k mod N
\* (so the order is 1, 2, ..., N-1, 0); for N = 0 the list returned is empty.
C1_Sequencing ==
    [][\A p \in Procs :
         (pc[p] = "fetch" /\ pc'[p] = "unlock") =>
            LET N == issue[p].PageCount IN
            /\ Len(pages[p]) = N
            /\ \A k \in 1..N : pages[p][k].idx = k - 1
            /\ Len(pages'[p]) = N
            /\ \A k \in 1..N : pages'[p][k] = pages[p][(k % N) + 1]
            /\ \A k \in 1..N : pages'[p][k].idx = k % N]_vars

\* a three-page issue has been sequenced
C1_Witness ==
    \E p \in Procs :
        /\ pc[p] = "unlock"
        /\ issue[p].PageCount = 3
        /\ [k \in 1..3 |-> pages[p][k].idx] = <<1, 2, 0>>

\* C2: with one writer and with faults at any step of save, a file at a final
\* path always holds a whole document; a final path changes only by the rename
\* of a temp file that holds the whole merged document of the issue; and when
\* the run is killed after the temp file was written and before the rename,
\* the final path does not exist.
C2_AtomicPersist ==
    /\ [](\A path \in FinalPaths : files[path].exists => WellFormed(files[path]))
    /\ [][/\ \A path \in FinalPaths :
               files'[path] # files[path] =>
                  \E p \in Procs :
                     /\ pc[p] = "rename"
                     /\ CurPath(p) = path
                     /\ w[p] = unlockAndMerge(pages[p], issue[p].Password).doc
                     /\ files'[path] = [exists |-> TRUE, data |-> Serialize(w[p])]
          /\ \A p \in Procs :
               (pc[p] \in {"close", "rename"} /\ pc'[p] = "crashed") =>
                  ~files'[CurPath(p)].exists]_vars

\* a run was killed during save: a temp file with part of a document is left
\* and the final path does not exist
C2_Witness ==
    \E p \in Procs : \E path \in FinalPaths :
        /\ pc[p] = "crashed"
        /\ files[TempOf(path)].exists
        /\ files[TempOf(path)].data # <<>>
        /\ ~WellFormed(files[TempOf(path)])
        /\ ~files[path].exists

\* C3: once a file exists at a final path, no step changes it.
C3_NeverOverwritten ==
    [][\A path \in FinalPaths : files[path].exists => files'[path] = files[path]]_vars

\* a later run has come to an issue whose file an earlier run wrote, and went
\* past it
C3_Witness ==
    \E p \in Procs :
        /\ magazines = BatchLong
        /\ pc[p] = "issue"
        /\ ii[p] = 2
        /\ log[p] = <<[level |-> "info", magazine |-> <<"M">>, issue |-> <<"a">>,
                       msg |-> << <<"issue already downloaded">> >>]>>
        /\ files[PathOf(magazines[1], magazines[1].Issues[1])].exists

\* C4: when the final path of the issue taken up already exists, the step
\* logs "issue already downloaded" and goes on to the next issue: no request
\* is sent for the issue, nothing is fetched, merged or kept, and no file or
\* directory changes.
C4_SkipDoesNothing ==
    [][\A p \in Procs :
         (/\ pc[p] = "issue"
          /\ ii[p] <= Len(Magazine(p).Issues)
          /\ files[CurPath(p)].exists
          /\ Moved(p)
          /\ pc'[p] # "crashed") =>
            /\ pc'[p] = "issue"
            /\ mi'[p] = mi[p]
            /\ ii'[p] = ii[p] + 1
            /\ log'[p] = Append(log[p], Info(p, "issue already downloaded"))
            /\ reqs'[p] = <<>>
            /\ issue'[p] = NoIssue /\ pages'[p] = <<>> /\ w'[p] = <<>>
            /\ files' = files
            /\ dirs' = dirs]_vars

\* the second of two issues with the same file name was skipped in the run
\* that wrote the file
C4_Witness ==
    \E p \in Procs :
        /\ magazines = BatchTwo
        /\ pc[p] = "issue"
        /\ mi[p] = 1 /\ ii[p] = 3
        /\ reqs[p] = <<>>
        /\ Len(log[p]) = 4
        /\ log[p][4] = [level |-> "info", magazine |-> <<"M">>, issue |-> <<"b", ":">>,
                        msg |-> << <<"issue already downloaded">> >>]

\* the error says that the download of page j failed
FetchFailedAt(e, j) ==
    Len(e) >= 2 /\ e[2] = <<"failed to download page", ToString(j)>>

\* the indices of the page requests among the requests rs, in the order sent
PageRequests(rs) ==
    LET IsPage(r) == r.kind = "page"
        sel == SelectSeq(rs, IsPage)
    IN  [k \in 1..Len(sel) |-> sel[k].page]

\* C5: when the fetch of page j fails, the pages requested for the issue are
\* 0..j and no more, no page is kept, no merge was made and the final path
\* does not exist; save is entered only with all of the PageCount pages, each
\* index requested once; and no step of the metadata and page fetches, nor the
\* report of a failure, changes a file.
C5_AbortOnFetchFailure ==
    /\ [](\A p \in Procs :
            /\ \A j \in 0..MaxPageCount :
                 (pc[p] = "report" /\ FetchFailedAt(err[p], j)) =>
                    /\ PageRequests(reqs[p]) = [k \in 1..j + 1 |-> k - 1]
                    /\ pages[p] = <<>>
                    /\ w[p] = <<>>
                    /\ ~files[CurPath(p)].exists
            /\ pc[p] \in {"unlock", "create", "write", "close", "rename"} =>
                 /\ Len(pages[p]) = issue[p].PageCount
                 /\ PageRequests(reqs[p]) = [k \in 1..issue[p].PageCount |-> k - 1])
    /\ [][\A p \in Procs :
            (Moved(p) /\ pc[p] \in {"meta", "fetch", "report"}) =>
               /\ files' = files
               /\ (pc[p] = "report" => pc'[p] \in {"issue", "crashed"})]_vars

\* the fetch of the second of three pages failed
C5_Witness ==
    \E p \in Procs :
        /\ pc[p] = "report"
        /\ issue[p].PageCount = 3
        /\ FetchFailedAt(err[p], 1)

\* some container of ps does not parse or does not open with the password
Undecryptable(ps, password) ==
    \E k \in 1..Len(ps) : ps[k].kind # "pdf" \/ ps[k].key # password

\* C6: when some container of the sequenced list, at whatever position, does
\* not parse or rejects the password, save returns the error of
\* unlockAndMerge and changes no file, and the final path does not exist;
\* the file steps of save are reached only when every container opens.
C6_DecryptFailureLeavesNoFiles ==
    /\ [](\A p \in Procs :
            pc[p] \in {"create", "write", "close", "rename"} =>
               ~Undecryptable(pages[p], issue[p].Password))
    /\ [][\A p \in Procs :
            (/\ pc[p] = "unlock"
             /\ Undecryptable(pages[p], issue[p].Password)
             /\ Moved(p)
             /\ pc'[p] # "crashed") =>
               /\ pc'[p] = "report"
               /\ err'[p] # Nil
               /\ err'[p][1] = <<"failed to unlock and merge pages for">> \o CurPath(p)
               /\ files' = files
               /\ ~files'[CurPath(p)].exists]_vars

\* save failed on a list of three containers of which the first opens and
\* the second does not
C6_Witness ==
    \E p \in Procs :
        /\ pc[p] = "report"
        /\ err[p] # Nil
        /\ err[p][1] = <<"failed to unlock and merge pages for">> \o CurPath(p)
        /\ Len(pages[p]) = 3
        /\ pages[p][1].kind = "pdf" /\ pages[p][1].key = issue[p].Password
        /\ pages[p][2].key # issue[p].Password

\* the log has a line of the issue n of the magazine m being taken up
TakenUp(lg, m, n) ==
    \E k \in 1..Len(lg) :
        /\ lg[k].level = "info"
        /\ lg[k].magazine = magazines[m].Title
        /\ lg[k].issue = magazines[m].Issues[n].Title
        /\ lg[k].msg \in {<< <<"issue already downloaded">> >>,
                          << <<"downloading issue metadata">> >>}

\* the log has no line of the directory of the magazine m having failed
DirAvailable(lg, m) ==
    \A k \in 1..Len(lg) :
        lg[k].level = "error" =>
            lg[k].msg[1] # <<"failed to create directory">> \o magazines[m].Title

\* C7: whatever the outcome of an issue, the step that reports it goes on to
\* the next issue of the same magazine; while a magazine is worked on every
\* issue before the current one was taken up, and when downloadAllIssues
\* returns every issue of every magazine whose directory was available was
\* taken up.
C7_FailureIsolation ==
    /\ [][\A p \in Procs :
            (pc[p] = "report" /\ Moved(p) /\ pc'[p] # "crashed") =>
               /\ pc'[p] = "issue"
               /\ mi'[p] = mi[p]
               /\ ii'[p] = ii[p] + 1]_vars
    /\ [](\A p \in Procs :
            /\ pc[p] \in {"issue", "meta", "fetch", "unlock", "create", "write",
                          "close", "rename", "report"} =>
                 \A n \in 1..ii[p] - 1 : TakenUp(log[p], mi[p], n)
            /\ pc[p] = "returned" =>
                 \A m \in 1..Len(magazines) :
                    DirAvailable(log[p], m) =>
                       \A n \in 1..Len(magazines[m].Issues) : TakenUp(log[p], m, n))

\* a run has returned whose first issue failed and whose second issue was
\* taken up after it
C7_Witness ==
    \E p \in Procs :
        /\ magazines = BatchLong
        /\ pc[p] = "returned"
        /\ \E k \in 1..Len(log[p]) - 1 :
              /\ log[p][k].level = "error"
              /\ log[p][k + 1].level = "info"
              /\ log[p][k + 1].issue = <<"b", "/">>

\* C8: whenever save has returned nil for an issue, the final path holds the
\* whole merged document and the temp path does not exist.
C8_SuccessMeansOneArtifact ==
    \A p \in Procs :
        (pc[p] = "report" /\ err[p] = Nil) =>
            /\ Holds(CurPath(p), w[p])
            /\ ~files[CurTemp(p)].exists

\* C9: when save returns after pdf.Write or file.Close (that is, one of them
\* failed), the error it returns is not nil, and no file was renamed.
C9_PersistFailuresReported ==
    [][\A p \in Procs :
         (pc[p] = "close" /\ pc'[p] = "report") =>
            /\ err'[p] # Nil
            /\ files' = files]_vars

\* the number of sub-pages of the containers of ps before the k-th
RECURSIVE SubPagesBefore(_, _)
SubPagesBefore(ps, k) ==
    IF k <= 1 THEN 0 ELSE SubPagesBefore(ps, k - 1) + ps[k - 1].n

\* C10: the document unlockAndMerge returns holds, for the containers in the
\* order of the sequenced list and for each of them its sub-pages 1..n in
\* that order, exactly these sub-pages with the annotations cleared, and
\* nothing else; for the three single-page containers of "Sample" it is
\* d(P1), d(P2), d(P0).
C10_MergeOrder ==
    \A p \in Procs :
        pc[p] \in {"create", "write", "close", "rename"} =>
            /\ Len(w[p]) = SubPagesBefore(pages[p], Len(pages[p]) + 1)
            /\ \A k \in 1..Len(pages[p]) : \A j \in 1..pages[p][k].n :
                  w[p][SubPagesBefore(pages[p], k) + j] =
                     [src |-> pages[p][k].idx, num |-> j, Annots |-> "nil"]
            /\ issue[p].ID = 5 =>
                  w[p] = <<[src |-> 1, num |-> 1, Annots |-> "nil"],
                           [src |-> 2, num |-> 1, Annots |-> "nil"],
                           [src |-> 0, num |-> 1, Annots |-> "nil"]>>

\* three containers, one of them with two sub-pages, were merged
C10_Witness ==
    \E p \in Procs :
        /\ pc[p] = "create"
        /\ Len(pages[p]) = 3
        /\ pages[p][1].n = 2
        /\ Len(w[p]) = 4

\* the indices 0..n-1 in ascending order
Indices(n) == [k \in 1..n |-> k - 1]

\* the error says that the download of some page failed
FetchFailed(e) == \E j \in 0..MaxPageCount : FetchFailedAt(e, j)

\* the stages of save
SaveStages == {"unlock", "create", "write", "close", "rename"}

\* C11 as stated: for every issue that was not skipped and whose metadata was
\* obtained, when the issue is done exactly PageCount page fetches were
\* attempted, one for each index 0..PageCount-1.
C11_FetchCountAlways ==
    \A p \in Procs :
        (pc[p] = "report" /\ issue[p] # NoIssue) =>
            PageRequests(reqs[p]) = Indices(issue[p].PageCount)

\* C11, amended: the page fetches attempted for an issue whose metadata was
\* obtained are those of the indices 0, 1, 2, ... in order, never more than
\* PageCount of them; while the loop is at index i they are 0..i-1; when no
\* fetch failed (save was entered) they are exactly 0..PageCount-1; and when
\* the fetch of index j failed they are exactly 0..j, the failed one being the
\* last.
C11_FetchCount ==
    \A p \in Procs :
        issue[p] # NoIssue =>
            LET rs == PageRequests(reqs[p])
                N == issue[p].PageCount
            IN  /\ Len(rs) <= N
                /\ rs = Indices(Len(rs))
                /\ pc[p] = "fetch" => Len(rs) = i[p]
                /\ pc[p] \in SaveStages => Len(rs) = N
                /\ pc[p] = "report" =>
                      IF FetchFailed(err[p])
                      THEN Len(rs) >= 1 /\ FetchFailedAt(err[p], Len(rs) - 1)
                      ELSE Len(rs) = N

\* an issue of three pages was saved after three fetches
C11_Witness ==
    \E p \in Procs :
        /\ pc[p] = "report"
        /\ err[p] = Nil
        /\ issue[p] # NoIssue
        /\ issue[p].PageCount = 3
        /\ PageRequests(reqs[p]) = <<0, 1, 2>>
        /\ files[CurPath(p)].exists

\* the request did not end in a response with a success status whose body
\* was read
Unsuccessful(resp) ==
    resp.gerr # Nil \/ resp.rerr # Nil \/ resp.status \notin 200..299

\* C12: whatever the request for the page the loop is at yields, downloadPage
\* returns an error and no page when it is a transport failure, a cancelled
\* or timed-out context, a body that cannot be read or a response whose
\* status is not a success; and no page that was fetched and is kept for the
\* merge came with a status that is not a success.
C12_DownloadPageFails ==
    \A p \in Procs :
        /\ (pc[p] = "fetch" /\ i[p] < issue[p].PageCount) =>
              \A resp \in Get(p, GetURL(issue[p], i[p]).url) :
                 Unsuccessful(resp) =>
                    /\ downloadPage(resp).err # Nil
                    /\ downloadPage(resp).page = NoBody
        /\ (pc[p] \in {"fetch"} \cup SaveStages) =>
              \A k \in 1..Len(reqs[p]) :
                 (reqs[p][k].kind = "page" /\ reqs[p][k].err = Nil) =>
                    reqs[p][k].status \in 200..299

\* the text of the error e holds the password
Leaks(e, password) ==
    \E k \in 1..Len(e) : \E t \in 1..Len(e[k]) : e[k][t] = password

\* the error says that a container rejected the password
Rejected(e) ==
    e # Nil /\ Head(e[Len(e)]) = "failed to decrypt pages using password"

\* C13: the error of an issue one of whose containers rejected the password,
\* as save returns it and as downloadAllIssues logs it, does not hold the
\* password; and for two passwords that the containers about to be merged
\* both reject, unlockAndMerge returns the same error.
C13_NoCredentialLeak ==
    \A p \in Procs :
        /\ (pc[p] = "report" /\ Rejected(err[p])) => ~Leaks(err[p], issue[p].Password)
        /\ \A k \in 1..Len(log[p]) :
              (log[p][k].level = "error" /\ Rejected(log[p][k].msg)) =>
                 ~Leaks(log[p][k].msg, ServerPassword)
        /\ pc[p] = "unlock" =>
              \A pw1, pw2 \in Keys \cup {"guess"} :
                 LET e1 == unlockAndMerge(pages[p], pw1).err
                     e2 == unlockAndMerge(pages[p], pw2).err
                 IN  (Rejected(e1) /\ Rejected(e2)) => e1 = e2

\* the error is one of the persist step: of os.Create, or of pdf.Write,
\* file.Close and os.Rename
PersistError(e) ==
    e # Nil /\ Head(Head(e)) \in {"failed to create", "failed to save"}

Rank(stage) ==
    CASE stage = "issue" -> 1
      [] stage = "meta" -> 2
      [] stage = "fetch" -> 3
      [] stage = "unlock" -> 4
      [] stage = "create" -> 5
      [] stage = "write" -> 6
      [] stage = "close" -> 7
      [] stage = "rename" -> 8
      [] stage = "report" -> 9
      [] OTHER -> 0

\* within one issue a process moves only forward through the stages; the temp
\* file is created only with every page fetched and the merge of the
\* sequenced pages done; a final path changes only by the rename of a process
\* that is past Write and Close, with the whole document in its temp file
StageOrder ==
    [][/\ \A p \in Procs :
            /\ (Moved(p) /\ Rank(pc[p]) > 0 /\ Rank(pc'[p]) > 0
                  /\ mi'[p] = mi[p] /\ ii'[p] = ii[p]) =>
                  Rank(pc'[p]) >= Rank(pc[p])
            /\ (pc[p] = "create" /\ pc'[p] = "write") =>
                  /\ Len(pages[p]) = issue[p].PageCount
                  /\ PageRequests(reqs[p]) = Indices(issue[p].PageCount)
                  /\ unlockAndMerge(pages[p], issue[p].Password) = [doc |-> w[p], err |-> Nil]
       /\ \A path \in Paths :
            files'[path] # files[path] =>
               \E p \in Procs :
                  /\ CurPath(p) = path \/ CurTemp(p) = path
                  /\ pc[p] \in {"create", "write", "rename"}
                  /\ (path \in FinalPaths \/ pc[p] = "rename") =>
                        /\ pc[p] = "rename" /\ pc'[p] = "report"
                        /\ fd[p] = NoFd
                        /\ Holds(CurTemp(p), w[p])]_vars

\* C15: within one issue a process moves only forward through skip check,
\* metadata, page fetches, sequencing, merge and persist; the temp file is
\* created only after every page was fetched and merged and the rename is
\* done only after the temp file was written in full and closed; and an issue
\* that was taken up ends either persisted (no error, the final path holds
\* the document) or failed (an error, no file at the final path), never
\* neither and never both.
C15_StageOrderOneOutcome ==
    /\ StageOrder
    /\ [](\A p \in Procs :
            pc[p] = "report" =>
               \/ err[p] = Nil /\ Holds(CurPath(p), w[p])
               \/ err[p] # Nil /\ ~files[CurPath(p)].exists)

\* the page requests among the requests rs, in the order sent
PageCalls(rs) ==
    LET IsPage(r) == r.kind = "page" IN SelectSeq(rs, IsPage)

\* C16: the pages of one issue are requested in strictly ascending order of
\* index, 0, 1, 2, ..., each index once; every request but the last one sent
\* has returned without error before the next was sent, and a step sends one
\* request at most; a request that fails ends the issue, which sends no
\* request after it; and in one run the page loop of an issue is entered once
\* at most.
C16_SequentialNoRetry ==
    /\ [](\A p \in Procs :
            LET sel == PageCalls(reqs[p]) IN
            /\ PageRequests(reqs[p]) = Indices(Len(sel))
            /\ \A k \in 1..Len(sel) - 1 : sel[k].err = Nil
            /\ \A k \in 1..Len(sel) :
                  pc[p] \in {"fetch", "report"} \cup SaveStages => sel[k].issue = issue[p].ID
            /\ \A a, b \in 1..Len(log[p]) :
                  (/\ a # b
                   /\ log[p][a].msg = << <<"downloading issue">> >>
                   /\ log[p][b].msg = << <<"downloading issue">> >>) =>
                     <<log[p][a].magazine, log[p][a].issue>> #
                     <<log[p][b].magazine, log[p][b].issue>>)
    /\ [][\A p \in Procs :
            /\ Len(reqs'[p]) <= Len(reqs[p]) + 1
            /\ (/\ pc[p] = "fetch"
                /\ Len(reqs'[p]) = Len(reqs[p]) + 1
                /\ reqs'[p][Len(reqs'[p])].err # Nil) =>
                  pc'[p] = "report"
            /\ (pc[p] \in {"report"} \cup SaveStages /\ pc'[p] # "crashed") =>
                  PageCalls(reqs'[p]) = PageCalls(reqs[p])]_vars

\* the third page of an issue failed after the first two were fetched
C16_Witness ==
    \E p \in Procs :
        /\ pc[p] = "report"
        /\ FetchFailedAt(err[p], 2)
        /\ Len(PageCalls(reqs[p])) = 3
        /\ PageCalls(reqs[p])[2].err = Nil
        /\ PageCalls(reqs[p])[3].err # Nil

\* the error ends in the error of a ctx that is done
CtxError(e) ==
    e # Nil /\ e[Len(e)] \in {<<"context canceled">>, <<"context deadline exceeded">>}

\* C17: once the ctx of a process is done, a turn of its page loop fails with
\* the error of the ctx, gets no response and keeps no page, the issue goes
\* to its report with no page kept and no file changed, and no step of the
\* issue from its metadata to that report changes a file; a process in save
\* takes its steps as without cancellation: none of them returns the error of
\* the ctx, and the rename that succeeds puts the whole merged document at
\* the final path.
C17_Cancellation ==
    [][\A p \in Procs :
         (cancelled[p] /\ Moved(p) /\ pc'[p] # "crashed") =>
            /\ (pc[p] = "fetch" /\ i[p] < issue[p].PageCount) =>
                  /\ pc'[p] = "report"
                  /\ CtxError(err'[p])
                  /\ FetchFailedAt(err'[p], i[p])
                  /\ reqs'[p][Len(reqs'[p])].status = 0
                  /\ pages'[p] = <<>>
                  /\ w'[p] = <<>>
                  /\ files' = files
            /\ pc[p] \in {"meta", "fetch", "report"} => files' = files
            /\ pc[p] \in SaveStages =>
                  /\ pc'[p] \in SaveStages \cup {"report"}
                  /\ ~CtxError(err'[p])
                  /\ (pc[p] = "rename" /\ err'[p] = Nil) =>
                        /\ files'[CurPath(p)] = [exists |-> TRUE, data |-> Serialize(w[p])]
                        /\ ~files'[CurTemp(p)].exists]_vars

\* the ctx was cancelled after the first page of an issue of three was
\* fetched: the second fetch failed and the issue was given up
C17_Witness ==
    \E p \in Procs :
        /\ cancelled[p]
        /\ pc[p] = "report"
        /\ issue[p].PageCount = 3
        /\ CtxError(err[p])
        /\ FetchFailedAt(err[p], 1)
        /\ PageCalls(reqs[p])[1].status = 200
        /\ PageCalls(reqs[p])[2].status = 0
        /\ pages[p] = <<>>
        /\ ~files[CurPath(p)].exists

\* a message of the error e names the issue process p is at: by the titles
\* of its magazine and of the issue, or by its destination path
Identified(e, p) ==
    \E k \in 1..Len(e) :
        /\ Len(e[k]) >= 2
        /\ Tail(e[k]) \in {CurPath(p), Magazine(p).Title \o <<" ">> \o Metadata(p).Title}

\* C18: the error an issue ends with, whatever the stage that failed, names
\* the issue (the titles of the magazine and the issue, or the destination
\* path); and the error of a page fetch that failed names the index of that
\* page.
C18_ErrorIdentity ==
    \A p \in Procs :
        (pc[p] = "report" /\ err[p] # Nil) =>
            /\ Identified(err[p], p)
            /\ (PageCalls(reqs[p]) # <<>> /\ PageCalls(reqs[p])[Len(PageCalls(reqs[p]))].err # Nil) =>
                  FetchFailedAt(err[p], PageCalls(reqs[p])[Len(PageCalls(reqs[p]))].page)

\* some final path was renamed onto more than once, or holds a file that is
\* not a whole document
WrittenTwiceOrIncomplete ==
    \E path \in FinalPaths :
        \/ renames[path] > 1
        \/ files[path].exists /\ ~WellFormed(files[path])

\* C19: a final path is renamed onto more than once, or holds a document that
\* was not written in full, only when two instances of the program work on
\* the same batch at the same time: with one instance, however often it is
\* run again, no such state is reached.
C19_SamePathRace ==
    WrittenTwiceOrIncomplete => pc[2] # "off"

\* both instances found no file at the final path, both created and wrote
\* the shared temp path and both renamed it onto the final path
C19_Witness ==
    /\ \A p \in Procs :
          /\ pc[p] = "report"
          /\ err[p] = Nil
          /\ mi[p] = 1 /\ ii[p] = 1
          /\ Len(PageCalls(reqs[p])) = 1
    /\ renames[PathOf(BatchRace[1], BatchRace[1].Issues[1])] = 2

\* C20: an issue whose temp path exists and whose final path does not is not
\* skipped: its metadata is fetched next; os.Create leaves the temp file
\* empty, whatever it held; the temp file about to be renamed holds the
\* document merged in this run from the pages fetched in this run and nothing
\* else, and after the rename the final path holds exactly that document and
\* the temp path is gone.
C20_StalePartIgnored ==
    /\ [][\A p \in Procs :
            /\ (/\ pc[p] = "issue"
                /\ ii[p] <= Len(Magazine(p).Issues)
                /\ files[CurTemp(p)].exists
                /\ ~files[CurPath(p)].exists
                /\ Moved(p)
                /\ pc'[p] # "crashed") =>
                  (pc'[p] = "meta" /\ ii'[p] = ii[p] /\ files' = files)
            /\ (pc[p] = "create" /\ pc'[p] = "write") =>
                  files'[CurTemp(p)] = [exists |-> TRUE, data |-> <<>>]
            /\ (pc[p] = "rename" /\ pc'[p] = "report" /\ err'[p] = Nil) =>
                  /\ Holds(CurTemp(p), w[p])
                  /\ files'[CurPath(p)] = [exists |-> TRUE, data |-> Serialize(w[p])]
                  /\ ~files'[CurTemp(p)].exists]_vars
    /\ [](\A p \in Procs :
            pc[p] = "rename" =>
               /\ unlockAndMerge(pages[p], issue[p].Password) = [doc |-> w[p], err |-> Nil]
               /\ Len(PageCalls(reqs[p])) = Len(pages[p])
               /\ Holds(CurTemp(p), w[p]))

\* the first of two issues with the same file name failed in save and left
\* its temp file; the second one was taken up in the same run, and its
\* document is at the final path
C20_Witness ==
    \E p \in Procs :
        /\ magazines = BatchTwo
        /\ pc[p] = "report"
        /\ mi[p] = 1 /\ ii[p] = 2
        /\ err[p] = Nil
        /\ Holds(CurPath(p), w[p])
        /\ ~files[CurTemp(p)].exists
        /\ \E k \in 1..Len(log[p]) :
              /\ log[p][k].level = "error"
              /\ Head(log[p][k].msg) = <<"failed to save">> \o CurPath(p)

\* the log has a line of some issue of the magazine m
MagazineWorkedOn(lg, m) ==
    \E k \in 1..Len(lg) : lg[k].level = "info" /\ lg[k].magazine = magazines[m].Title

\* C21: when the directory of a magazine does not exist and os.Mkdir fails,
\* the step logs the error "failed to create directory" with the title of the
\* magazine, sends no request, changes no file and no directory and goes on
\* to the next magazine; and in a run whose log has that error for a
\* magazine, no issue of that magazine was taken up: the log has no line of
\* any of its issues, and the run is past that magazine.
C21_MkdirFailureSkipsMagazine ==
    /\ [][\A p \in Procs :
            (/\ pc[p] = "mkdir"
             /\ Moved(p)
             /\ pc'[p] # "crashed"
             /\ DirOf(Magazine(p)) \notin dirs') =>
               /\ pc'[p] = "mag"
               /\ mi'[p] = mi[p] + 1
               /\ Len(log'[p]) = Len(log[p]) + 1
               /\ log'[p][Len(log'[p])].level = "error"
               /\ Head(log'[p][Len(log'[p])].msg) =
                     <<"failed to create directory">> \o Magazine(p).Title
               /\ reqs'[p] = reqs[p]
               /\ issue'[p] = NoIssue
               /\ files' = files
               /\ dirs' = dirs]_vars
    /\ [](\A p \in Procs : \A m \in 1..Len(magazines) :
            (pc[p] \notin {"off", "idle"} /\ ~DirAvailable(log[p], m)) =>
               /\ ~MagazineWorkedOn(log[p], m)
               /\ \A n \in 1..Len(magazines[m].Issues) : ~TakenUp(log[p], m, n)
               /\ mi[p] > m)

\* the directory of the first of two magazines could not be made; the issue of
\* the second magazine was taken up and the run has returned
C21_Witness ==
    \E p \in Procs :
        /\ magazines = BatchTwo
        /\ pc[p] = "returned"
        /\ ~DirAvailable(log[p], 1)
        /\ ~MagazineWorkedOn(log[p], 1)
        /\ DirAvailable(log[p], 2)
        /\ TakenUp(log[p], 2, 1)
        /\ DirOf(BatchTwo[1]) \notin dirs

\* process p is inside downloadAllIssues
Running(p) == pc[p] \notin {"off", "idle", "returned", "crashed"}

\* a call of downloadAllIssues returns, unless the process is killed
Terminates ==
    \A p \in Procs : Running(p) ~> (pc[p] \in {"returned", "crashed"})

\* the line k of the log lg is a line of the issue n of the magazine m
LineOf(lg, k, m, n) ==
    /\ lg[k].level = "info"
    /\ lg[k].magazine = magazines[m].Title
    /\ lg[k].issue = magazines[m].Issues[n].Title

\* the lines of lg at which the issue n of the magazine m is taken up
TakenUpAt(lg, m, n) ==
    {k \in 1..Len(lg) :
        /\ LineOf(lg, k, m, n)
        /\ lg[k].msg \in {<< <<"issue already downloaded">> >>,
                          << <<"downloading issue metadata">> >>}}

\* the issue was skipped
Skipped(lg, m, n) ==
    \E k \in TakenUpAt(lg, m, n) : lg[k].msg = << <<"issue already downloaded">> >>

\* the issue failed: its lines are followed by the line of its error
Failed(lg, m, n) ==
    \E k \in TakenUpAt(lg, m, n) : \E j \in k + 1..Len(lg) :
        /\ lg[j].level = "error"
        /\ Head(Head(lg[j].msg)) # "failed to create directory"
        /\ \A x \in k + 1..j - 1 : LineOf(lg, x, m, n)

\* the issue was persisted: it was neither skipped nor did it fail, and its
\* final path holds a whole document
Persisted(lg, m, n) ==
    /\ ~Skipped(lg, m, n)
    /\ ~Failed(lg, m, n)
    /\ WellFormed(files[PathOf(magazines[m], magazines[m].Issues[n])])

\* the issues of the batch, as pairs of indices, and their list order
IssuePairs ==
    UNION {{<<m, n>> : n \in 1..Len(magazines[m].Issues)} : m \in 1..Len(magazines)}
Before(a, b) == a[1] < b[1] \/ (a[1] = b[1] /\ a[2] < b[2])

\* when the call has returned, every issue of every magazine whose directory
\* was available was taken up exactly once, and in list order
OnceInOrder ==
    \A p \in Procs :
        pc[p] = "returned" =>
            /\ \A a \in IssuePairs :
                  DirAvailable(log[p], a[1]) =>
                     Cardinality(TakenUpAt(log[p], a[1], a[2])) = 1
            /\ \A a, b \in IssuePairs :
                  Before(a, b) =>
                     \A k \in TakenUpAt(log[p], a[1], a[2]) :
                        \A j \in TakenUpAt(log[p], b[1], b[2]) : k < j

\* when the call has returned, every issue that was taken up has exactly one
\* of the three outcomes
OneOutcomeEach ==
    \A p \in Procs :
        pc[p] = "returned" =>
            \A a \in IssuePairs :
               DirAvailable(log[p], a[1]) =>
                  /\ \/ Skipped(log[p], a[1], a[2])
                     \/ Failed(log[p], a[1], a[2])
                     \/ Persisted(log[p], a[1], a[2])
                  /\ ~(Skipped(log[p], a[1], a[2]) /\ Failed(log[p], a[1], a[2]))

\* C22: a call of downloadAllIssues on a finite batch, every call it makes
\* returning, returns (unless the process is killed); and when it has
\* returned, every issue of every magazine whose directory was available was
\* taken up exactly once and in list order and has exactly one outcome: it
\* was skipped, it failed with its error logged, or it was persisted.
C22_TerminatesWithOutcomes ==
    /\ Terminates
    /\ []OnceInOrder
    /\ []OneOutcomeEach

====
